---- MODULE Spec2Model ----
(***************************************************************************)
(* Model of two parts of deepchecks:                                       *)
(*   - DataDuplicates.run_logic                                            *)
(*       (deepchecks/tabular/checks/data_integrity/data_duplicates.py)     *)
(*   - SuiteResultSerializer                                               *)
(*       (deepchecks/core/serialization/suite_result/html.py)              *)
(* Floating point values are modelled as exact rationals <<num, den>> in   *)
(* lowest terms; strings that the code concatenates are modelled as        *)
(* sequences of tokens.                                                    *)
(***************************************************************************)
EXTENDS Integers, Sequences, FiniteSets, TLC

VARIABLES
    df,               \* the sampled and projected dataframe (after lines 74-75)
    with_display,     \* context.with_display
    n_to_show,        \* self.n_to_show
    pc,               \* "start" | "done": position of the check run ("idle": no run)
    result,           \* what run_logic produced: raised error / CheckResult
    results,          \* SuiteResult.results, in run order
    args,             \* arguments of SuiteResultSerializer.serialize
    spc,              \* "start" | "done": position of the serializer ("idle": no call)
    document,         \* the token sequence serialize returned
    renderer_calls    \* the calls made to CheckResultHtmlSerializer.serialize

vars == <<df, with_display, n_to_show, pc, result,
          results, args, spc, document, renderer_calls>>

dup_vars == <<df, with_display, n_to_show, pc, result>>
suite_vars == <<results, args, spc, document, renderer_calls>>

----------------------------------------------------------------------------
(* Bounds of the model *)

MaxRows == 5
MaxShow == 2
MaxOutcomes == 3

----------------------------------------------------------------------------
(* Generic helpers *)

None == <<"None">>
Some(x) == <<"Some", x>>
IsSome(o) == Len(o) = 2
Get(o) == o[2]

Range(s) == {s[i] : i \in DOMAIN s}

RECURSIVE SelectSeq2(_, _, _)
\* the subsequence of s at the positions i with keep[i], in order
SelectSeq2(s, keep, i) ==
    IF i > Len(s) THEN <<>>
    ELSE (IF keep[i] THEN <<s[i]>> ELSE <<>>) \o SelectSeq2(s, keep, i + 1)

RECURSIVE Gcd(_, _)
Gcd(a, b) == IF b = 0 THEN a ELSE Gcd(b, a % b)

\* exact rational num/den (den > 0, num >= 0 is all the model needs)
Rat(n, d) == LET g == Gcd(n, d) IN <<n \div g, d \div g>>
RatSub(a, b) == Rat(a[1] * b[2] - b[1] * a[2], a[2] * b[2])
RatDiv(a, b) == Rat(a[1] * b[2], a[2] * b[1])
RatGT0(a) == a[1] > 0

----------------------------------------------------------------------------
(* Column labels and cell values.                                          *)
(* A label is an int (the default label of an unnamed column), a str, or   *)
(* the str() of a list of labels (line 98).                                *)

I(n) == <<"int", n>>
S(s) == <<"str", s>>
Repr(names) == <<"repr", names>>

\* the missing value (numpy NaN); any value outside the columns' domains
NaN == 0 - 1

NumberOfDuplicates == S("Number of Duplicates")
Instances == S("Instances")

\* The dataframes the runs start from: the column labels and, per column,
\* the values a cell may hold.
Schemas ==
    { [names |-> << I(0) >>,          doms |-> << {0, 1, NaN} >>],
      [names |-> << S("a") >>,        doms |-> << {0, 1, NaN} >>],
      [names |-> << I(0), S("b") >>,  doms |-> << {0, 1}, {0, NaN} >>] }

RowTuples(doms) ==
    {t \in [1..Len(doms) -> UNION Range(doms)] : \A i \in DOMAIN doms : t[i] \in doms[i]}

\* row index labels: a RangeIndex in order, or in reverse (the sample is shuffled)
IndexLabels(n) == { [i \in 1..n |-> i - 1], [i \in 1..n |-> n - i] }

DataFrames ==
    UNION { UNION { { [columns |-> sch.names, index |-> ix, data |-> d] :
                        ix \in IndexLabels(n), d \in [1..n -> RowTuples(sch.doms)] }
                    : n \in 0..MaxRows }
            : sch \in Schemas }

----------------------------------------------------------------------------
(* pandas operations used by run_logic *)

\* order of group keys in a sorted groupby: ascending, missing values last
ValLess(a, b) == a # NaN /\ (b = NaN \/ (b # NaN /\ a < b))
KeyLess(k1, k2) ==
    \E i \in DOMAIN k1 : (\A j \in 1..(i - 1) : k1[j] = k2[j]) /\ ValLess(k1[i], k2[i])

RECURSIVE SortKeys(_)
SortKeys(ks) ==
    IF ks = {} THEN <<>>
    ELSE LET m == CHOOSE k \in ks : \A o \in ks \ {k} : KeyLess(k, o)
         IN <<m>> \o SortKeys(ks \ {m})

HasNaN(t) == \E i \in DOMAIN t : t[i] = NaN

\* frame.groupby(frame.columns, dropna=dropna).size(): a Series indexed by the
\* group keys (sorted), holding the group sizes; the Series has no name
GroupBySize(frame, dropna) ==
    LET kept == {i \in DOMAIN frame.data : ~(dropna /\ HasNaN(frame.data[i]))}
        keys == SortKeys({frame.data[i] : i \in kept})
    IN [index_names |-> frame.columns,
        index |-> keys,
        values |-> [g \in DOMAIN keys |->
                      Cardinality({i \in kept : frame.data[i] = keys[g]})]]

HasDuplicateLabels(cols) ==
    \E i, j \in DOMAIN cols : i # j /\ cols[i] = cols[j]

\* Series.reset_index() of an unnamed Series: the index levels become the first
\* columns, the values the column labelled 0
ResetIndex(series) ==
    [columns |-> series.index_names \o << I(0) >>,
     data |-> [g \in DOMAIN series.index |-> series.index[g] \o << series.values[g] >>]]

\* DataFrame.rename(columns={from: to})
Rename(frame, from, to) ==
    [frame EXCEPT !.columns = [c \in DOMAIN frame.columns |->
                                 IF frame.columns[c] = from THEN to ELSE frame.columns[c]]]

HasColumn(frame, label) == \E c \in DOMAIN frame.columns : frame.columns[c] = label
ColPos(frame, label) == CHOOSE c \in DOMAIN frame.columns : frame.columns[c] = label

RECURSIVE StableDescending(_, _)
\* the positions of `idx` ordered by count descending, equal counts in the
\* order of the frame
StableDescending(idx, count) ==
    IF idx = {} THEN <<>>
    ELSE LET m == CHOOSE i \in idx :
                     \A j \in idx \ {i} : count[i] > count[j] \/ (count[i] = count[j] /\ i < j)
         IN <<m>> \o StableDescending(idx \ {m}, count)

\* DataFrame.nlargest(n, [column]) with keep='first'
NLargest(frame, n, column) ==
    LET c == ColPos(frame, column)
        order == StableDescending(DOMAIN frame.data, [i \in DOMAIN frame.data |-> frame.data[i][c]])
        m == IF n < Len(order) THEN n ELSE Len(order)
    IN [frame EXCEPT !.data = [i \in 1..m |-> frame.data[order[i]]]]

\* frame[frame[column] > 1]
FilterGreaterThanOne(frame, column) ==
    LET c == ColPos(frame, column)
    IN [frame EXCEPT !.data =
          SelectSeq2(frame.data, [i \in DOMAIN frame.data |-> frame.data[i][c] > 1], 1)]

\* elementwise ==: a missing value equals nothing, itself included
ElemEq(a, b) == a # NaN /\ b # NaN /\ a = b

----------------------------------------------------------------------------
(* DataDuplicates.run_logic *)

Raised(e) == [raised |-> Some(e), value |-> None, display |-> None]
CheckResult(value, display) == [raised |-> None, value |-> Some(value), display |-> display]
NoResult == [raised |-> None, value |-> None, display |-> None]

data_columns(frame) == frame.columns
n_samples(frame) == Len(frame.data)

group_unique_data_dropna(frame) == GroupBySize(frame, TRUE)
group_unique_data(frame) == GroupBySize(frame, FALSE)

n_unique(frame) == Len(group_unique_data(frame).index)

percent_duplicate(frame) ==
    RatSub(Rat(1, 1), RatDiv(Rat(n_unique(frame), 1), Rat(n_samples(frame), 1)))

is_anonymous_series(series) == \E i \in DOMAIN series.index_names : series.index_names[i] = I(0)

new_name(series) == Repr(series.index_names)

\* lines 97-101: the index level labelled 0 is relabelled str(names)
reindexed(series) ==
    IF is_anonymous_series(series)
    THEN [series EXCEPT !.index_names =
            [i \in DOMAIN series.index_names |->
               IF series.index_names[i] = I(0) THEN new_name(series) ELSE series.index_names[i]]]
    ELSE series

rename_back_omitted(series, frame) == frame
\* lines 103-104
rename_back(series, frame) ==
    IF is_anonymous_series(series) THEN Rename(frame, new_name(series), I(0)) ELSE frame

\* lines 102-104, given that reset_index can insert the index levels
duplicates_counted(series) ==
    rename_back(series, Rename(ResetIndex(reindexed(series)), I(0), NumberOfDuplicates))

most_duplicates_unsorted(counted, n) ==
    LET f == FilterGreaterThanOne(counted, NumberOfDuplicates)
    IN [f EXCEPT !.data = SubSeq(f.data, 1, IF n < Len(f.data) THEN n ELSE Len(f.data))]
\* lines 106-107
most_duplicates(counted, n) ==
    NLargest(FilterGreaterThanOne(counted, NumberOfDuplicates), n, NumberOfDuplicates)

\* line 111, for one row of most_duplicates: the index labels of the rows of
\* frame that compare equal to row[data_columns] in every column
instances_of(frame, most, row) ==
    LET key == [c \in DOMAIN data_columns(frame) |-> row[ColPos(most, data_columns(frame)[c])]]
        hit == [i \in DOMAIN frame.data |->
                  \A c \in DOMAIN data_columns(frame) : ElemEq(frame.data[i][c], key[c])]
    IN SelectSeq2(frame.index, hit, 1)

\* lines 109-111
indexes(frame, most) ==
    [r \in DOMAIN most.data |-> instances_of(frame, most, most.data[r])]

\* lines 113-115: the table indexed by Instances and Number of Duplicates; the
\* remaining columns are the key columns
evidence_table(frame, most) ==
    LET keep == [c \in DOMAIN most.columns |-> most.columns[c] # NumberOfDuplicates]
        idx == indexes(frame, most)
    IN [index_names |-> << Instances, NumberOfDuplicates >>,
        columns |-> SelectSeq2(most.columns, keep, 1),
        rows |-> [r \in DOMAIN most.data |->
                    [instances |-> idx[r],
                     number |-> most.data[r][ColPos(most, NumberOfDuplicates)],
                     key |-> SelectSeq2(most.data[r], keep, 1)]]]

display_condition_or(wd, pd) == wd \/ RatGT0(pd)
\* line 93
display_condition(wd, pd) == wd /\ RatGT0(pd)

\* lines 93-122
make_display(frame, n) ==
    LET series == group_unique_data(frame)
        reset == ResetIndex(reindexed(series))
    IN IF HasDuplicateLabels(reset.columns)
       THEN Raised("ValueError")       \* reset_index cannot insert the level
       ELSE LET counted == duplicates_counted(series)
            IN IF ~HasColumn(counted, NumberOfDuplicates)
                  \/ \E c \in DOMAIN data_columns(frame) :
                        ~HasColumn(counted, data_columns(frame)[c])
               THEN Raised("KeyError")
               ELSE CheckResult(percent_duplicate(frame),
                                Some(evidence_table(frame, most_duplicates(counted, n))))

empty_check_omitted(frame) == FALSE
\* line 80
is_empty(frame) == n_samples(frame) = 0

\* lines 77-124
run_logic(frame, wd, n) ==
    IF is_empty(frame) THEN Raised("DatasetValidationError")
    ELSE IF n_samples(frame) = 0 THEN Raised("ZeroDivisionError")
    ELSE IF display_condition(wd, percent_duplicate(frame))
         THEN make_display(frame, n)
         ELSE CheckResult(percent_duplicate(frame), None)

DuplicatesIdle ==
    /\ df = [columns |-> << I(0) >>, index |-> <<>>, data |-> <<>>]
    /\ with_display = FALSE
    /\ n_to_show = 1
    /\ pc = "idle"
    /\ result = NoResult

SuiteIdle ==
    /\ results = <<>>
    /\ args = None
    /\ spc = "idle"
    /\ document = None
    /\ renderer_calls = <<>>

InitDuplicates ==
    /\ df \in DataFrames
    /\ with_display \in BOOLEAN
    /\ n_to_show \in 1..MaxShow
    /\ pc = "start"
    /\ result = NoResult
    /\ SuiteIdle

RunLogic ==
    /\ pc = "start"
    /\ result' = run_logic(df, with_display, n_to_show)
    /\ pc' = "done"
    /\ UNCHANGED <<df, with_display, n_to_show>>
    /\ UNCHANGED suite_vars

----------------------------------------------------------------------------
(* SuiteResult: the outcomes and their classification.                     *)
(* An outcome is a CheckResult (with or without conditions, with or        *)
(* without a display) or a CheckFailure (whose exception is or is not one  *)
(* of the deepchecks error types). Outcomes are identified by their        *)
(* position in results.                                                    *)

CheckResultOutcome(c, d) ==
    [kind |-> "CheckResult", conditions |-> c, display |-> d, deepchecks_error |-> FALSE]
CheckFailureOutcome(e) ==
    [kind |-> "CheckFailure", conditions |-> FALSE, display |-> FALSE, deepchecks_error |-> e]

Outcomes ==
    {CheckResultOutcome(c, d) : c \in BOOLEAN, d \in BOOLEAN}
        \cup {CheckFailureOutcome(e) : e \in BOOLEAN}

OutcomeSets == UNION {[1..n -> Outcomes] : n \in 0..MaxOutcomes}

results_with_conditions(rs) ==
    {i \in DOMAIN rs : rs[i].kind = "CheckResult" /\ rs[i].conditions}
results_without_conditions(rs) ==
    {i \in DOMAIN rs : rs[i].kind = "CheckResult" /\ ~rs[i].conditions}
results_with_display(rs) ==
    {i \in DOMAIN rs : rs[i].kind = "CheckResult" /\ rs[i].display}
results_without_display(rs) ==
    {i \in DOMAIN rs : rs[i].kind = "CheckResult" /\ ~rs[i].display}
failures(rs) == {i \in DOMAIN rs : rs[i].kind = "CheckFailure"}

\* the selected outcomes, in run order
select_results(rs, idx) == SelectSeq2([i \in DOMAIN rs |-> i], [i \in DOMAIN rs |-> i \in idx], 1)

----------------------------------------------------------------------------
(* Markup. A piece of markup is a token [t, i]: t names the piece, i is    *)
(* the outcome it belongs to, or a flag, or 0.                             *)

Tok(t) == [t |-> t, i |-> 0]
TokI(t, i) == [t |-> t, i |-> i]
Flag(b) == IF b THEN 1 ELSE 0

bold_hr == << Tok("bold_hr") >>
light_hr == << Tok("light_hr") >>

RECURSIVE Join(_, _)
\* sep.join(parts)
Join(sep, parts) ==
    IF parts = <<>> THEN <<>>
    ELSE IF Len(parts) = 1 THEN parts[1]
    ELSE parts[1] \o sep \o Join(sep, Tail(parts))

Count(doc, t) == Cardinality({k \in DOMAIN doc : doc[k].t = t})

\* Python truthiness of an Optional[str]
Truthy(o) == IsSome(o) /\ Get(o) # ""

ADDITIONAL_OUTPUT == << "additional-output" >>

\* CheckResultHtmlSerializer.serialize (deepchecks/core/serialization/
\* check_result/html.py): the single-outcome renderer. It puts out its own
\* resource snippets when asked to, the outcome's header, and the sections
\* check_sections names (all of them when it is None).
CheckResultHtmlSerialize(i, check_sections, include_plotlyjs, include_requirejs) ==
    LET wanted(sec) == check_sections = None
                       \/ \E k \in DOMAIN Get(check_sections) : Get(check_sections)[k] = sec
    IN (IF include_requirejs THEN << TokI("requirejs", 1) >> ELSE <<>>)
       \o (IF include_plotlyjs THEN << TokI("plotlyjs", 1) >> ELSE <<>>)
       \o << TokI("check:header", i) >>
       \o (IF wanted("condition-table") THEN << TokI("check:condition-table", i) >> ELSE <<>>)
       \o (IF wanted("additional-output") THEN << TokI("check:additional-output", i) >> ELSE <<>>)

----------------------------------------------------------------------------
(* SuiteResultSerializer *)

\* lines 180-216
prepare_summary(output_id) ==
    << TokI("summary:h1", Flag(Truthy(output_id))), Tok("summary:prologue"),
       Tok("summary:extra_info") >>

\* lines 218-251
prepare_conditions_table(rs) ==
    IF results_with_conditions(rs) = {}
    THEN << Tok("conditions:none-defined") >>
    ELSE << Tok("conditions:h2") >>
         \o [k \in DOMAIN select_results(rs, results_with_conditions(rs)) |->
               TokI("conditions:row", select_results(rs, results_with_conditions(rs))[k])]

inner_include_plotlyjs_default == TRUE
\* lines 283, 322
inner_include_plotlyjs == FALSE
\* lines 284, 323
inner_include_requirejs == FALSE

\* lines 279-288: the renderer calls of prepare_results_with_condition_and_display
calls_with_condition_and_display(rs, check_sections) ==
    LET sel == select_results(rs, results_with_conditions(rs) \cap results_with_display(rs))
    IN [k \in DOMAIN sel |->
          [section |-> "with_conditions", result |-> sel[k],
           check_sections |-> check_sections, include |-> None,
           include_plotlyjs |-> inner_include_plotlyjs,
           include_requirejs |-> inner_include_requirejs]]

\* lines 318-327: the renderer calls of prepare_results_without_condition; the
\* sections asked for are passed as the keyword `include`, so the renderer's
\* check_sections keeps its default, None
calls_without_condition(rs, check_sections) ==
    LET sel == select_results(rs, results_without_conditions(rs) \cap results_with_display(rs))
    IN [k \in DOMAIN sel |->
          [section |-> "without_conditions", result |-> sel[k],
           check_sections |-> None, include |-> check_sections,
           include_plotlyjs |-> inner_include_plotlyjs,
           include_requirejs |-> inner_include_requirejs]]

Rendered(calls) ==
    [k \in DOMAIN calls |->
       CheckResultHtmlSerialize(calls[k].result, calls[k].check_sections,
                                calls[k].include_plotlyjs, calls[k].include_requirejs)]

\* lines 253-290
prepare_results_with_condition_and_display(rs, check_sections) ==
    << Tok("with_conditions:h2") >>
        \o Join(light_hr, Rendered(calls_with_condition_and_display(rs, check_sections)))

\* lines 292-329
prepare_results_without_condition(rs, check_sections) ==
    << Tok("without_conditions:h2") >>
        \o Join(light_hr, Rendered(calls_without_condition(rs, check_sections)))

failures_data_failures_only(rs) ==
    LET sel == select_results(rs, failures(rs))
    IN [k \in DOMAIN sel |->
          [check |-> sel[k],
           reason |-> IF rs[sel[k]].deepchecks_error
                      THEN "str(exception)" ELSE "type: str(exception)",
           priority |-> 1]]
\* lines 340-354: one row [check, reason, priority] per selected outcome; the
\* reason of a failure is the exception's text, prefixed with its type unless
\* it is one of the deepchecks error types
failures_data(rs) ==
    LET sel == select_results(rs, failures(rs) \cup results_without_display(rs))
    IN [k \in DOMAIN sel |->
          IF rs[sel[k]].kind # "CheckFailure"
          THEN [check |-> sel[k], reason |-> "Nothing found", priority |-> 2]
          ELSE [check |-> sel[k],
                reason |-> IF rs[sel[k]].deepchecks_error
                           THEN "str(exception)" ELSE "type: str(exception)",
                priority |-> 1]]

IsPermutation(p, n) == \A k \in 1..n : \E j \in 1..n : p[j] = k

\* line 357: df.sort_values(by=['priority']) with the default kind, quicksort,
\* which is not a stable sort: every ordering by priority is a possible outcome
sort_values(data) ==
    { [k \in DOMAIN data |-> data[p[k]]] :
        p \in {q \in [DOMAIN data -> DOMAIN data] :
                 /\ IsPermutation(q, Len(data))
                 /\ \A a, b \in DOMAIN data :
                       a < b => data[q[a]].priority <= data[q[b]].priority} }

\* lines 331-363, given the outcome of the sort
prepare_failures_list(rs, sorted) ==
    IF select_results(rs, failures(rs) \cup results_without_display(rs)) = <<>>
    THEN <<>>
    ELSE << Tok("failures:h2") >>
         \o [k \in DOMAIN sorted |-> TokI(sorted[k].reason, sorted[k].check)]

sections_failures_always(a, rs, sorted) ==
    prepare_summary(a.output_id)
        \o bold_hr \o prepare_conditions_table(rs)
        \o bold_hr \o prepare_results_with_condition_and_display(rs, Some(ADDITIONAL_OUTPUT))
        \o bold_hr \o prepare_results_without_condition(rs, Some(ADDITIONAL_OUTPUT))
        \o bold_hr \o prepare_failures_list(rs, sorted)
        \o (IF Truthy(a.output_id) THEN << Tok("go-to-top") >> ELSE <<>>)
\* lines 83-112: ''.join(sections)
sections(a, rs, sorted) ==
    prepare_summary(a.output_id)
        \o bold_hr \o prepare_conditions_table(rs)
        \o bold_hr \o prepare_results_with_condition_and_display(rs, Some(ADDITIONAL_OUTPUT))
        \o bold_hr \o prepare_results_without_condition(rs, Some(ADDITIONAL_OUTPUT))
        \o (IF prepare_failures_list(rs, sorted) # <<>>
            THEN bold_hr \o prepare_failures_list(rs, sorted) ELSE <<>>)
        \o (IF Truthy(a.output_id) THEN << Tok("go-to-top") >> ELSE <<>>)

\* lines 78-81
effective(a) ==
    IF a.full_html
    THEN [a EXCEPT !.include_plotlyjs = TRUE, !.include_requirejs = TRUE, !.connected = FALSE]
    ELSE a

\* line 114
plotlyjs(a) ==
    IF effective(a).include_plotlyjs
    THEN << TokI("plotlyjs", Flag(effective(a).connected)) >> ELSE <<>>
\* line 115
requirejs(a) ==
    IF effective(a).include_requirejs
    THEN << TokI("requirejs", Flag(effective(a).connected)) >> ELSE <<>>

\* lines 78-141
serialize(a, rs, sorted) ==
    IF ~a.full_html
    THEN requirejs(a) \o plotlyjs(a) \o sections(a, rs, sorted)
    ELSE << Tok("<html><head/><body>") >>
         \o requirejs(a) \o plotlyjs(a)
         \o << Tok("<div>") >> \o sections(a, rs, sorted)
         \o << Tok("</div></body></html>") >>

SerializeArgs ==
    [output_id : {None, Some(""), Some("id")},
     full_html : BOOLEAN,
     include_requirejs : BOOLEAN,
     include_plotlyjs : BOOLEAN,
     connected : BOOLEAN]

InitSuite ==
    /\ results \in OutcomeSets
    /\ args \in SerializeArgs
    /\ spc = "start"
    /\ document = None
    /\ renderer_calls = <<>>
    /\ DuplicatesIdle

Serialize ==
    /\ spc = "start"
    /\ \E sorted \in sort_values(failures_data(results)) :
          document' = Some(serialize(args, results, sorted))
    /\ renderer_calls' = calls_with_condition_and_display(results, Some(ADDITIONAL_OUTPUT))
                            \o calls_without_condition(results, Some(ADDITIONAL_OUTPUT))
    /\ spc' = "done"
    /\ UNCHANGED <<results, args>>
    /\ UNCHANGED dup_vars

----------------------------------------------------------------------------
(* Specifications *)

SpecDuplicates == InitDuplicates /\ [][RunLogic]_vars

SpecSuite == InitSuite /\ [][Serialize]_vars

----------------------------------------------------------------------------
(* Properties of DataDuplicates.run_logic *)

Done == pc = "done"
Returned == Done /\ IsSome(result.value)
Displayed == Returned /\ IsSome(result.display)
Table == Get(result.display)
Ratio == Get(result.value)

\* the sampled rows whose projected values are the tuple k
RowsOf(k) == {i \in DOMAIN df.data : df.data[i] = k}
DistinctTuples == {df.data[i] : i \in DOMAIN df.data}
AllUnique == \A i, j \in DOMAIN df.data : i # j => df.data[i] # df.data[j]
DuplicateGroups == {k \in DistinctTuples : Cardinality(RowsOf(k)) > 1}
ReturnedKeys == {Table.rows[r].key : r \in DOMAIN Table.rows}
FirstRow(k) == CHOOSE i \in RowsOf(k) : \A j \in RowsOf(k) : i <= j

\* C1: every group of the evidence table lists as many row identifiers as its
\* 'Number of Duplicates', and every listed identifier is the label of a sampled
\* row whose projected values equal the group key, also when the key holds a
\* missing value.
C1_EvidenceComplete ==
    Displayed =>
        \A r \in DOMAIN Table.rows :
            LET row == Table.rows[r]
            IN /\ Len(row.instances) = row.number
               /\ \A x \in DOMAIN row.instances :
                     \E i \in RowsOf(row.key) : df.index[i] = row.instances[x]

\* C2: for a non-empty sample the returned ratio is 1 - distinct/rows, lies in
\* [0, 1], and is 0 exactly when all sampled row tuples are distinct.
C2_Ratio ==
    (Done /\ Len(df.data) > 0) =>
        /\ Returned
        /\ Ratio[2] > 0
        /\ Ratio[1] * Len(df.data) = (Len(df.data) - Cardinality(DistinctTuples)) * Ratio[2]
        /\ 0 <= Ratio[1] /\ Ratio[1] <= Ratio[2]
        /\ (Ratio[1] = 0) <=> AllUnique

\* 5 rows in 4 distinct groups: ratio 0.2
C2_Witness ==
    /\ Returned
    /\ Len(df.data) = 5 /\ Cardinality(DistinctTuples) = 4
    /\ Ratio = <<1, 5>>

\* The parts of C3 that do not depend on how equal counts are ordered: every
\* returned group has count > 1, is a group of the sample with that count, no
\* group is returned twice, there are min(n_to_show, number of duplicate groups)
\* of them, counts descend, and no omitted duplicate group has a strictly higher
\* count than a returned one.
TopKBasics ==
    /\ \A r \in DOMAIN Table.rows :
          /\ Table.rows[r].number > 1
          /\ Table.rows[r].number = Cardinality(RowsOf(Table.rows[r].key))
    /\ \A r, s \in DOMAIN Table.rows : r # s => Table.rows[r].key # Table.rows[s].key
    /\ Len(Table.rows) <= n_to_show
    /\ Len(Table.rows) = IF Cardinality(DuplicateGroups) < n_to_show
                         THEN Cardinality(DuplicateGroups) ELSE n_to_show
    /\ \A r, s \in DOMAIN Table.rows : r < s => Table.rows[r].number >= Table.rows[s].number
    /\ \A k \in DuplicateGroups \ ReturnedKeys : \A r \in DOMAIN Table.rows :
          Cardinality(RowsOf(k)) <= Table.rows[r].number

\* C3 (as amended): top-K correctness, with groups of equal count kept and
\* ordered in the order of the grouped table, which is ascending group key
\* with missing values last.
C3_TopKByKeyOrder ==
    Displayed =>
        /\ TopKBasics
        /\ \A r, s \in DOMAIN Table.rows :
              (r < s /\ Table.rows[r].number = Table.rows[s].number)
                  => KeyLess(Table.rows[r].key, Table.rows[s].key)
        /\ \A k \in DuplicateGroups \ ReturnedKeys : \A r \in DOMAIN Table.rows :
              Cardinality(RowsOf(k)) = Table.rows[r].number => KeyLess(Table.rows[r].key, k)

\* C3 (as claimed): top-K correctness, with groups of equal count kept and
\* ordered by the order in which the groups are first encountered in the rows.
C3_TopKByFirstEncounter ==
    Displayed =>
        /\ TopKBasics
        /\ \A r, s \in DOMAIN Table.rows :
              (r < s /\ Table.rows[r].number = Table.rows[s].number)
                  => FirstRow(Table.rows[r].key) < FirstRow(Table.rows[s].key)
        /\ \A k \in DuplicateGroups \ ReturnedKeys : \A r \in DOMAIN Table.rows :
              Cardinality(RowsOf(k)) = Table.rows[r].number
                  => FirstRow(Table.rows[r].key) < FirstRow(k)

\* a tie at the cut: two duplicate groups of equal size, only one of them returned
C3_Witness ==
    /\ Displayed
    /\ n_to_show = 1
    /\ Len(Table.rows) = 1
    /\ \E k \in DuplicateGroups \ ReturnedKeys :
          Cardinality(RowsOf(k)) = Table.rows[1].number

\* C4: a sample of 0 rows makes run_logic fail with the empty-dataset error and
\* return nothing, the division is never reached; a sample with rows never
\* raises this error.
C4_EmptyDataset ==
    Done =>
        /\ Len(df.data) = 0 => result = Raised("DatasetValidationError")
        /\ Len(df.data) > 0 => result.raised # Some("DatasetValidationError")

C4_Witness ==
    /\ Done
    /\ Len(df.data) = 0
    /\ result.raised = Some("DatasetValidationError")
    /\ result.value = None /\ result.display = None

\* C5: the result carries a display exactly when display generation is enabled
\* and the ratio is > 0, and the ratio is the one the run returns with display
\* generation switched the other way.
C5_DisplayIff ==
    (Done /\ Len(df.data) > 0) =>
        /\ Returned
        /\ IsSome(result.display) <=> (with_display /\ RatGT0(Ratio))
        /\ result.value = run_logic(df, ~with_display, n_to_show).value

C5_Witness ==
    /\ Displayed
    /\ with_display /\ RatGT0(Ratio)
    /\ run_logic(df, FALSE, n_to_show).display = None

\* C10: for a single column with the default label 0, display enabled and
\* ratio > 0, the evidence table's key column is headed 0, not the synthetic
\* label, and the count column is 'Number of Duplicates' and holds group sizes.
C10_AnonymousHeader ==
    (Done /\ df.columns = << I(0) >> /\ Len(df.data) > 0 /\ with_display /\ ~AllUnique) =>
        /\ Displayed
        /\ Table.columns = << I(0) >>
        /\ \E i \in DOMAIN Table.index_names : Table.index_names[i] = NumberOfDuplicates
        /\ \A r \in DOMAIN Table.rows :
              Table.rows[r].number = Cardinality(RowsOf(Table.rows[r].key))

C10_Witness ==
    /\ Displayed
    /\ df.columns = << I(0) >>
    /\ Table.columns = << I(0) >>
    /\ Len(Table.rows) > 0

----------------------------------------------------------------------------
(* Properties of SuiteResultSerializer *)

Serialized == spc = "done"
Doc == Get(document)

\* the section a token opens, "" for a token inside a section
SectionOf(tok) ==
    CASE tok.t = "summary:h1" -> "Summary"
      [] tok.t = "bold_hr" -> "separator"
      [] tok.t \in {"conditions:none-defined", "conditions:h2"} -> "ConditionsTable"
      [] tok.t = "with_conditions:h2" -> "ResultsWithConditionAndDisplay"
      [] tok.t = "without_conditions:h2" -> "ResultsWithoutCondition"
      [] tok.t = "failures:h2" -> "FailuresList"
      [] tok.t = "go-to-top" -> "GoToTop"
      [] OTHER -> ""

SectionSequence(doc) ==
    LET names == [k \in DOMAIN doc |-> SectionOf(doc[k])]
    IN SelectSeq2(names, [k \in DOMAIN doc |-> names[k] # ""], 1)

NotDisplayed(o) == o.kind = "CheckFailure" \/ ~o.display

\* C6: the sections come in the order Summary, separator, ConditionsTable,
\* separator, ResultsWithConditionAndDisplay, separator, ResultsWithoutCondition;
\* separator + FailuresList follow exactly when some outcome is a failure or has
\* no display; the 'Go to top' link comes last exactly when a (non-empty)
\* output_id was given; for standalone and fragment output alike.
C6_SectionOrder ==
    Serialized =>
        SectionSequence(Doc) =
            << "Summary", "separator", "ConditionsTable", "separator",
               "ResultsWithConditionAndDisplay", "separator", "ResultsWithoutCondition" >>
            \o (IF \E i \in DOMAIN results : NotDisplayed(results[i])
                THEN << "separator", "FailuresList" >> ELSE <<>>)
            \o (IF args.output_id \notin {None, Some("")} THEN << "GoToTop" >> ELSE <<>>)

C6_Witness ==
    /\ Serialized
    /\ args.full_html
    /\ args.output_id = Some("id")
    /\ \E i \in DOMAIN results : results[i].kind = "CheckFailure"
    /\ Doc[Len(Doc) - 1].t = "go-to-top"
    /\ Count(Doc, "failures:h2") = 1

\* C7: a standalone document of N > 1 outcomes that all have a display holds
\* the module-loader snippet once and the plotting-library snippet once, both
\* embedded rather than linked, whatever include_requirejs, include_plotlyjs
\* and connected were passed.
C7_ResourcesOnce ==
    (/\ Serialized
     /\ args.full_html
     /\ Len(results) > 1
     /\ \A i \in DOMAIN results : results[i].kind = "CheckResult" /\ results[i].display)
        => /\ Count(Doc, "requirejs") = 1
           /\ Count(Doc, "plotlyjs") = 1
           /\ \A k \in DOMAIN Doc : Doc[k].t \in {"requirejs", "plotlyjs"} => Doc[k].i = 0

C7_Witness ==
    /\ Serialized
    /\ args.full_html /\ ~args.include_requirejs /\ ~args.include_plotlyjs /\ args.connected
    /\ Len(results) = 3
    /\ \A i \in DOMAIN results : results[i].kind = "CheckResult" /\ results[i].display
    /\ \E i, j \in DOMAIN results : results[i].conditions /\ ~results[j].conditions
    /\ Len(renderer_calls) = 3
    /\ Count(Doc, "plotlyjs") = 1

FailureReasons == {"Nothing found", "str(exception)", "type: str(exception)"}
\* the rows of the failures table, top to bottom: the outcome of each row
FailureRows(doc) ==
    SelectSeq2([k \in DOMAIN doc |-> doc[k].i], [k \in DOMAIN doc |-> doc[k].t \in FailureReasons], 1)
Priority(i) == IF results[i].kind = "CheckFailure" THEN 1 ELSE 2

\* the rows of failures come before the rows of results without display
FailuresFirst ==
    Serialized =>
        \A a, b \in DOMAIN FailureRows(Doc) :
            a < b => Priority(FailureRows(Doc)[a]) <= Priority(FailureRows(Doc)[b])

\* C8: in the failures list every row of a failure comes before every row of a
\* result without display, and rows of equal priority keep the run order of
\* their outcomes.
C8_FailuresOrder ==
    Serialized =>
        \A a, b \in DOMAIN FailureRows(Doc) :
            a < b =>
                \/ Priority(FailureRows(Doc)[a]) < Priority(FailureRows(Doc)[b])
                \/ /\ Priority(FailureRows(Doc)[a]) = Priority(FailureRows(Doc)[b])
                   /\ FailureRows(Doc)[a] < FailureRows(Doc)[b]

\* C9: every call of the single-outcome renderer, for the results with
\* conditions and for those without, restricts the sections to
\* 'additional-output', so no condition table is rendered per outcome.
C9_AdditionalOutputOnly ==
    Serialized =>
        /\ \A k \in DOMAIN renderer_calls :
              renderer_calls[k].check_sections = Some(ADDITIONAL_OUTPUT)
        /\ Count(Doc, "check:condition-table") = 0

\* the section that position k of doc lies in: the section of the last
\* section-opening token at or before k ("" before the first one)
SectionAt(doc, k) ==
    LET opens == {j \in 1..k : SectionOf(doc[j]) # ""}
    IN IF opens = {} THEN ""
       ELSE SectionOf(doc[CHOOSE j \in opens : \A m \in opens : m <= j])

\* the positions of doc at which section sec lists outcome i: the header of
\* its rendering in a detail section, its row in the failures list
Listings(doc, sec, i) ==
    {k \in DOMAIN doc :
        /\ doc[k].i = i
        /\ SectionAt(doc, k) = sec
        /\ doc[k].t \in (IF sec = "FailuresList" THEN FailureReasons ELSE {"check:header"})}

ListingSections ==
    {"ResultsWithConditionAndDisplay", "ResultsWithoutCondition", "FailuresList"}

\* the one section that is to list an outcome
HomeSection(o) ==
    IF NotDisplayed(o) THEN "FailuresList"
    ELSE IF o.conditions THEN "ResultsWithConditionAndDisplay"
    ELSE "ResultsWithoutCondition"

\* C11: every outcome is listed exactly once in the report: a result with
\* conditions and a display only in ResultsWithConditionAndDisplay, a result
\* without conditions and with a display only in ResultsWithoutCondition, a
\* failure or a result without display only as one row of FailuresList.
C11_ReportCoverage ==
    Serialized =>
        \A i \in DOMAIN results : \A sec \in ListingSections :
            Cardinality(Listings(Doc, sec, i)) =
                IF sec = HomeSection(results[i]) THEN 1 ELSE 0

\* one outcome of each kind, each listed in its own section
C11_Witness ==
    /\ Serialized
    /\ Len(results) = 3
    /\ {HomeSection(results[i]) : i \in DOMAIN results} = ListingSections
    /\ \A i \in DOMAIN results :
          Cardinality(Listings(Doc, HomeSection(results[i]), i)) = 1

====
